---------------------------- MODULE Spec2Model ----------------------------
(***************************************************************************)
(* LZW compression with a byte-wise trie dictionary (lzw_trie.py), a       *)
(* Patricia dictionary (lzw_patricia.py) and the array decoder             *)
(* (lzw_decompress_standard in lzw_trie.py).                               *)
(*                                                                         *)
(* The code works on 256 byte values and 65536 codes.  The model keeps the *)
(* algorithms and scales the two sizes: NumBytes byte values (codes        *)
(* 0..NumBytes-1 are the seeded single-byte phrases) and Capacity codes.   *)
(* Python indices are kept 0-based; s[i] of the code is s[i+1] here.       *)
(***************************************************************************)
EXTENDS Integers, Sequences, FiniteSets, TLC

\* Scaled sizes: range(256) and the 65536 of the capacity checks.
NumBytes == 2
Capacity == 5
\* Length of the input files of an encode run.
MaxLen == 7
\* Dictionary interface runs: phrase length and number of insert calls.
MaxPhraseLen == 3
MaxInserts == 4
\* Code streams handed to the decoder: number of codes, largest code value.
MaxCodes == 4
MaxInCode == 6

\* struct's 'H': an unsigned 16-bit integer, written as two bytes.
WireByte == 256
WireWord == 65536

Byte == 0 .. (NumBytes - 1)

\* Python's s[a:b] for 0 <= a, b <= len(s).
Slice(s, a, b) == SubSeq(s, a + 1, b)

\* All byte sequences of length 0..n.
SeqsUpTo(S, n) == UNION { [1 .. k -> S] : k \in 0 .. n }

\* d[k] = v on a Python dict held as a function.
SetItem(d, k, v) == (k :> v) @@ d

NoEdges == [b \in {} |-> 0]

VARIABLES
    pc,        \* where the run is
    data,      \* the bytes of the input file
    fs,        \* the files written: path -> bytes, or NoFile
    tenc,      \* lzw_compress_trie: dictionary, curr_node, i, compressed_codes
    penc,      \* lzw_compress_patricia: dictionary, idx, compressed_codes
    dec,       \* lzw_decompress_standard: dictionary, codes, i, OLD_STRING, ...
    api,       \* a PatriciaDictionary and a TrieDictionary driven through their interface
    stored,    \* history: phrase -> code of the first insert call that offered it
    lastCall   \* history: the last interface call and its result

vars == <<pc, data, fs, tenc, penc, dec, api, stored, lastCall>>

(***************************************************************************)
(* PatriciaDictionary.  Nodes live in an arena (a sequence); node 1 is the *)
(* root, a new PatriciaNode() gets the next index.                         *)
(***************************************************************************)
PatriciaNode(code) == [code |-> code, edges |-> NoEdges]

RECURSIVE CommonPrefixLen(_, _, _, _)
\* while j < len(label) and idx + j < n and label[j] == string[idx + j]: j += 1
CommonPrefixLen(label, string, idx, j) ==
    IF j < Len(label) /\ idx + j < Len(string) /\ label[j + 1] = string[idx + j + 1]
    THEN CommonPrefixLen(label, string, idx, j + 1)
    ELSE j

\* Case 1 of insert: no edge starts with string[idx].
InsertNewEdge(d, string, code, node, idx) ==
    LET char == string[idx + 1]
        remaining_label == Slice(string, idx, Len(string))
        new_child == Len(d.nodes) + 1
        nodes1 == Append(d.nodes, PatriciaNode(code))
    IN [dict |-> [d EXCEPT
                    !.nodes = [nodes1 EXCEPT ![node].edges =
                        SetItem(@, char, [label |-> remaining_label, child |-> new_child])],
                    !.num_entries = @ + 1],
        result |-> TRUE]

\* insert without the `if node.code == -1` test: a stored phrase is overwritten.
InsertAtNodeOverwrite(d, code, node) ==
    [dict |-> [d EXCEPT !.nodes[node].code = code, !.num_entries = @ + 1],
     result |-> TRUE]

\* The full match that ends the string: give the node the code unless it has one.
InsertAtNode(d, code, node) ==
    IF d.nodes[node].code = -1
    THEN [dict |-> [d EXCEPT !.nodes[node].code = code, !.num_entries = @ + 1],
          result |-> TRUE]
    ELSE [dict |-> d, result |-> FALSE]

\* A split that keeps the whole label on the upper edge.
CommonPartUncut(label, j) == label

\* common_part = label[:j]
CommonPart(label, j) == Slice(label, 0, j)

\* rest_of_old_label = label[j:]
RestOfOldLabel(label, j) == Slice(label, j, Len(label))

\* The partial match: split the edge at j.
InsertSplit(d, string, code, node, idx, j) ==
    LET char == string[idx + 1]
        label == d.nodes[node].edges[char].label
        child == d.nodes[node].edges[char].child
        split_node == Len(d.nodes) + 1
        common_part == CommonPart(label, j)
        rest_of_old_label == RestOfOldLabel(label, j)
        edges1 == SetItem(NoEdges, rest_of_old_label[1],
                          [label |-> rest_of_old_label, child |-> child])
        rest_of_new_string == Slice(string, idx + j, Len(string))
        nodes1 ==
            IF rest_of_new_string = <<>>
            THEN Append(d.nodes, [code |-> code, edges |-> edges1])
            ELSE LET new_leaf == split_node + 1
                 IN Append(Append(d.nodes,
                        [code |-> -1,
                         edges |-> SetItem(edges1, rest_of_new_string[1],
                             [label |-> rest_of_new_string, child |-> new_leaf])]),
                        PatriciaNode(code))
    IN [dict |-> [d EXCEPT
                    !.nodes = [nodes1 EXCEPT ![node].edges =
                        SetItem(@, char, [label |-> common_part, child |-> split_node])],
                    !.num_entries = @ + 1],
        result |-> TRUE]

RECURSIVE InsertWalk(_, _, _, _, _)
\* The while loop of insert, from (node, idx).
InsertWalk(d, string, code, node, idx) ==
    IF ~(idx < Len(string))
    THEN [dict |-> d, result |-> FALSE]
    ELSE LET char == string[idx + 1]
             edges == d.nodes[node].edges
         IN IF char \notin DOMAIN edges
            THEN InsertNewEdge(d, string, code, node, idx)
            ELSE LET label == edges[char].label
                     child == edges[char].child
                     j == CommonPrefixLen(label, string, idx, 0)
                 IN IF j = Len(label)
                    THEN IF idx + j = Len(string)
                         THEN InsertAtNode(d, code, child)
                         ELSE InsertWalk(d, string, code, child, idx + j)
                    ELSE InsertSplit(d, string, code, node, idx, j)

\* PatriciaDictionary.insert(string, code): [dict, result].
PatriciaInsert(d, string, code) == InsertWalk(d, string, code, 1, 0)

\* The seeding loop started at 1 instead of 0: byte 0 is never inserted.
RECURSIVE PatriciaSeedFromOne(_, _)
PatriciaSeedFromOne(d, i) ==
    IF i >= NumBytes THEN d
    ELSE IF i = 0 THEN PatriciaSeedFromOne(d, i + 1)
    ELSE PatriciaSeedFromOne(PatriciaInsert(d, <<i>>, i).dict, i + 1)

RECURSIVE PatriciaSeed(_, _)
\* for i in range(256): self.insert(bytes([i]), i)
PatriciaSeed(d, i) ==
    IF i >= NumBytes THEN d
    ELSE PatriciaSeed(PatriciaInsert(d, <<i>>, i).dict, i + 1)

\* PatriciaDictionary.__init__
PatriciaDictionaryInit ==
    PatriciaSeed([nodes |-> <<PatriciaNode(-1)>>, num_entries |-> 0,
                  next_code |-> NumBytes], 0)

\* search_longest_prefix without the `if node.code != -1` test.
RECURSIVE SearchWalkAnyNode(_, _, _, _, _, _)
SearchWalkAnyNode(nodes, string, node, idx, last_valid_code, last_valid_len) ==
    IF ~(idx < Len(string))
    THEN <<last_valid_code, last_valid_len>>
    ELSE LET char == string[idx + 1]
             edges == nodes[node].edges
         IN IF char \notin DOMAIN edges
            THEN <<last_valid_code, last_valid_len>>
            ELSE LET label == edges[char].label
                     child == edges[char].child
                     j == CommonPrefixLen(label, string, idx, 0)
                 IN IF j = Len(label)
                    THEN SearchWalkAnyNode(nodes, string, child, idx + j,
                                           nodes[child].code, idx + j)
                    ELSE <<last_valid_code, last_valid_len>>

RECURSIVE SearchWalk(_, _, _, _, _, _)
\* The while loop of search_longest_prefix, from (node, idx).
SearchWalk(nodes, string, node, idx, last_valid_code, last_valid_len) ==
    IF ~(idx < Len(string))
    THEN <<last_valid_code, last_valid_len>>
    ELSE LET char == string[idx + 1]
             edges == nodes[node].edges
         IN IF char \notin DOMAIN edges
            THEN <<last_valid_code, last_valid_len>>
            ELSE LET label == edges[char].label
                     child == edges[char].child
                     j == CommonPrefixLen(label, string, idx, 0)
                 IN IF j = Len(label)
                    THEN IF nodes[child].code # -1
                         THEN SearchWalk(nodes, string, child, idx + j,
                                         nodes[child].code, idx + j)
                         ELSE SearchWalk(nodes, string, child, idx + j,
                                         last_valid_code, last_valid_len)
                    ELSE <<last_valid_code, last_valid_len>>

\* search_longest_prefix that looks at the first byte of the string only.
SearchFirstByte(d, string) ==
    SearchWalk(d.nodes, Slice(string, 0, 1), 1, 0, -1, 0)

\* PatriciaDictionary.search_longest_prefix(string): <<code, match_length>>.
SearchLongestPrefix(d, string) == SearchWalk(d.nodes, string, 1, 0, -1, 0)

RECURSIVE PatriciaDfs(_, _, _)
\* dfs of dump_to_csv: the rows <<code, phrase>> below a node.
PatriciaDfs(nodes, node, current_str) ==
    (IF nodes[node].code # -1 THEN {<<nodes[node].code, current_str>>} ELSE {})
    \cup UNION { PatriciaDfs(nodes, nodes[node].edges[k].child,
                             current_str \o nodes[node].edges[k].label)
                 : k \in DOMAIN nodes[node].edges }

\* The rows dump_to_csv collects.
PatriciaRows(d) == PatriciaDfs(d.nodes, 1, <<>>)

(***************************************************************************)
(* TrieDictionary.  Same arena; children maps a byte to a node index.      *)
(***************************************************************************)
TrieNode(code) == [code |-> code, children |-> NoEdges]

RECURSIVE InsertInitialWalk(_, _, _, _, _)
\* insert_initial(string, code), from node with k bytes consumed.
InsertInitialWalk(d, string, code, node, k) ==
    IF k >= Len(string)
    THEN [d EXCEPT !.nodes[node].code = code, !.num_entries = @ + 1]
    ELSE LET byte == string[k + 1]
         IN IF byte \notin DOMAIN d.nodes[node].children
            THEN LET new == Len(d.nodes) + 1
                     nodes1 == Append(d.nodes, TrieNode(-1))
                 IN InsertInitialWalk(
                        [d EXCEPT !.nodes = [nodes1 EXCEPT ![node].children =
                                                 SetItem(@, byte, new)]],
                        string, code, new, k + 1)
            ELSE InsertInitialWalk(d, string, code, d.nodes[node].children[byte], k + 1)

RECURSIVE TrieSeed(_, _)
\* for i in range(256): self.insert_initial(bytes([i]), i)
TrieSeed(d, i) ==
    IF i >= NumBytes THEN d
    ELSE TrieSeed(InsertInitialWalk(d, <<i>>, i, 1, 0), i + 1)

\* TrieDictionary.__init__
TrieDictionaryInit ==
    [TrieSeed([nodes |-> <<TrieNode(-1)>>, next_code |-> 0, num_entries |-> 0], 0)
        EXCEPT !.next_code = NumBytes]

\* search_node(byte_val, current_node): the child, or None.
SearchNode(d, byte_val, current_node) ==
    IF byte_val \in DOMAIN d.nodes[current_node].children
    THEN [found |-> TRUE, node |-> d.nodes[current_node].children[byte_val]]
    ELSE [found |-> FALSE, node |-> current_node]

\* insert_child with `<=` for `<` in the capacity check.
InsertChildOffByOne(d, byte_val, parent_node) ==
    IF d.next_code <= Capacity
    THEN LET new_node == Len(d.nodes) + 1
             nodes1 == Append(d.nodes, [code |-> d.next_code, children |-> NoEdges])
         IN [dict |-> [d EXCEPT
                         !.nodes = [nodes1 EXCEPT ![parent_node].children =
                                        SetItem(@, byte_val, new_node)],
                         !.next_code = @ + 1,
                         !.num_entries = @ + 1],
             result |-> TRUE]
    ELSE [dict |-> d, result |-> FALSE]

\* insert_child without `self.next_code += 1`.
InsertChildNoIncrement(d, byte_val, parent_node) ==
    IF d.next_code < Capacity
    THEN LET new_node == Len(d.nodes) + 1
             nodes1 == Append(d.nodes, [code |-> d.next_code, children |-> NoEdges])
         IN [dict |-> [d EXCEPT
                         !.nodes = [nodes1 EXCEPT ![parent_node].children =
                                        SetItem(@, byte_val, new_node)],
                         !.num_entries = @ + 1],
             result |-> TRUE]
    ELSE [dict |-> d, result |-> FALSE]

\* insert_child(byte_val, parent_node): [dict, result].
InsertChild(d, byte_val, parent_node) ==
    IF d.next_code < Capacity
    THEN LET new_node == Len(d.nodes) + 1
             nodes1 == Append(d.nodes, TrieNode(d.next_code))
         IN [dict |-> [d EXCEPT
                         !.nodes = [nodes1 EXCEPT ![parent_node].children =
                                        SetItem(@, byte_val, new_node)],
                         !.next_code = @ + 1,
                         !.num_entries = @ + 1],
             result |-> TRUE]
    ELSE [dict |-> d, result |-> FALSE]

RECURSIVE TrieDfs(_, _, _)
\* dfs of dump_to_csv: the rows <<code, phrase>> below a node.
TrieDfs(nodes, node, path_bytes) ==
    (IF nodes[node].code # -1 THEN {<<nodes[node].code, path_bytes>>} ELSE {})
    \cup UNION { TrieDfs(nodes, nodes[node].children[k], Append(path_bytes, k))
                 : k \in DOMAIN nodes[node].children }

\* The rows dump_to_csv collects.
TrieRows(d) == TrieDfs(d.nodes, 1, <<>>)

(***************************************************************************)
(* Files.  A compressed file is the codes as big-endian 16-bit words.      *)
(***************************************************************************)
Compressed == [trie |-> "test_output_trie.lzw", patricia |-> "test_output_patricia.lzw"]
Restored == [trie |-> "test_restored_trie.txt", patricia |-> "test_restored_patricia.txt"]
Backends == {"trie", "patricia"}
Paths == {Compressed[b] : b \in Backends} \cup {Restored[b] : b \in Backends}

NoFile == [exists |-> FALSE, bytes |-> <<>>]
File(bytes) == [exists |-> TRUE, bytes |-> bytes]

\* struct.pack('>H', code) of a code in range.
PackH(code) == <<code \div WireByte, code % WireByte>>

\* struct.unpack('>H', chunk)[0]
UnpackH(chunk) == chunk[1] * WireByte + chunk[2]

RECURSIVE WriteCodes(_, _, _)
\* for code in compressed_codes: f.write(struct.pack('>H', code)); struct.error
\* on a code outside 0..65535 leaves what was written before it.
WriteCodes(codes, k, written) ==
    IF k > Len(codes) THEN [ok |-> TRUE, bytes |-> written]
    ELSE IF codes[k] < 0 \/ codes[k] >= WireWord
         THEN [ok |-> FALSE, bytes |-> written]
         ELSE WriteCodes(codes, k + 1, written \o PackH(codes[k]))

RECURSIVE ReadCodes(_, _, _)
\* for i in range(0, len(compressed_data), 2): a chunk of 2 bytes is a code,
\* a last chunk of 1 byte is dropped.
ReadCodes(compressed_data, i, codes) ==
    IF i >= Len(compressed_data) THEN codes
    ELSE LET chunk == Slice(compressed_data, i,
                            IF i + 2 <= Len(compressed_data) THEN i + 2
                            ELSE Len(compressed_data))
         IN IF Len(chunk) = 2
            THEN ReadCodes(compressed_data, i + 2, Append(codes, UnpackH(chunk)))
            ELSE ReadCodes(compressed_data, i + 2, codes)

(***************************************************************************)
(* lzw_compress_trie                                                       *)
(***************************************************************************)
ApiIdle == [dict |-> PatriciaDictionaryInit, trie |-> TrieDictionaryInit, calls |-> 0]
NoCall == [op |-> "none", phrase |-> <<>>, code |-> -1, result |-> FALSE,
           called |-> FALSE]

\* The phrases both constructors store: byte i with code i.
Seeds == [b \in {<<i>> : i \in Byte} |-> b[1]]

TrieIdle == [dictionary |-> TrieDictionaryInit, curr_node |-> 1, i |-> 0,
             compressed_codes |-> <<>>, inserted |-> "none"]
PatIdle == [dictionary |-> PatriciaDictionaryInit, idx |-> 0,
            compressed_codes |-> <<>>, code |-> -1, match_len |-> 0,
            inserted |-> "none"]
DecIdle == [backend |-> "trie", dictionary |-> <<>>, codes |-> <<>>, i |-> 0,
            OLD_STRING |-> <<>>, STR |-> <<>>, decompressed_data |-> <<>>,
            error |-> "none", branch |-> "none"]

\* Lines 92-116: the dictionary, the read, the empty-input return, the first byte.
TrieStart ==
    /\ pc = "trie_start"
    /\ IF data = <<>>
       THEN /\ pc' = "pat_start"
            /\ tenc' = TrieIdle
       ELSE /\ pc' = "trie_loop"
            /\ tenc' = [TrieIdle EXCEPT
                          !.curr_node = TrieDictionaryInit.nodes[1].children[data[1]],
                          !.i = 1]
    /\ UNCHANGED <<data, fs, penc, dec, api, stored, lastCall>>

\* One iteration of for i in range(1, total_bytes).
TrieStep ==
    /\ pc = "trie_loop"
    /\ tenc.i < Len(data)
    /\ LET byte_val == data[tenc.i + 1]
           next_node == SearchNode(tenc.dictionary, byte_val, tenc.curr_node)
       IN IF next_node.found
          THEN tenc' = [tenc EXCEPT !.curr_node = next_node.node, !.i = @ + 1,
                                    !.inserted = "none"]
          ELSE LET r == InsertChild(tenc.dictionary, byte_val, tenc.curr_node)
               IN tenc' = [tenc EXCEPT
                     !.compressed_codes =
                         Append(@, tenc.dictionary.nodes[tenc.curr_node].code),
                     !.dictionary = r.dict,
                     !.curr_node = r.dict.nodes[1].children[byte_val],
                     !.i = @ + 1,
                     !.inserted = IF r.result THEN "True" ELSE "False"]
    /\ UNCHANGED <<pc, data, fs, penc, dec, api, stored, lastCall>>

\* After the loop: the straggler, and the output file.
TrieFinish ==
    /\ pc = "trie_loop"
    /\ tenc.i >= Len(data)
    /\ LET codes == Append(tenc.compressed_codes,
                           tenc.dictionary.nodes[tenc.curr_node].code)
           w == WriteCodes(codes, 1, <<>>)
       IN /\ tenc' = [tenc EXCEPT !.compressed_codes = codes, !.inserted = "none"]
          /\ fs' = [fs EXCEPT ![Compressed.trie] = File(w.bytes)]
          /\ pc' = IF w.ok THEN "pat_start" ELSE "struct_error"
    /\ UNCHANGED <<data, penc, dec, api, stored, lastCall>>

(***************************************************************************)
(* lzw_compress_patricia                                                   *)
(***************************************************************************)
\* Lines 176-197: the dictionary, the read, the empty-input return.
PatStart ==
    /\ pc = "pat_start"
    /\ penc' = PatIdle
    /\ pc' = IF data = <<>> THEN "dec_start" ELSE "pat_loop"
    /\ UNCHANGED <<data, fs, tenc, dec, api, stored, lastCall>>

\* One iteration of while idx < n.
PatStep ==
    /\ pc = "pat_loop"
    /\ penc.idx < Len(data)
    /\ LET n == Len(data)
           idx == penc.idx
           remainder == Slice(data, idx, n)
           found == SearchLongestPrefix(penc.dictionary, remainder)
           code == found[1]
           match_len == found[2]
           new_string == Slice(data, idx, idx + match_len + 1)
           offered == idx + match_len < n /\ penc.dictionary.next_code < Capacity
           r == PatriciaInsert(penc.dictionary, new_string, penc.dictionary.next_code)
       IN penc' = [penc EXCEPT
              !.compressed_codes = Append(@, code),
              !.dictionary = IF offered
                             THEN [r.dict EXCEPT !.next_code = @ + 1]
                             ELSE @,
              !.idx = idx + match_len,
              !.code = code,
              !.match_len = match_len,
              !.inserted = IF ~offered THEN "none"
                           ELSE IF r.result THEN "True" ELSE "False"]
    /\ UNCHANGED <<pc, data, fs, tenc, dec, api, stored, lastCall>>

\* After the loop: the output file.
PatFinish ==
    /\ pc = "pat_loop"
    /\ penc.idx >= Len(data)
    /\ LET w == WriteCodes(penc.compressed_codes, 1, <<>>)
       IN /\ fs' = [fs EXCEPT ![Compressed.patricia] = File(w.bytes)]
          /\ pc' = IF w.ok THEN "dec_start" ELSE "struct_error"
    /\ penc' = [penc EXCEPT !.inserted = "none"]
    /\ UNCHANGED <<data, tenc, dec, api, stored, lastCall>>

(***************************************************************************)
(* lzw_decompress_standard                                                 *)
(***************************************************************************)
\* dictionary = [bytes([i]) for i in range(256)]
DecodeTableInit == [c \in 1 .. NumBytes |-> <<c - 1>>]

\* Lines 183-206: the table, the read, the codes, the first code.
DecStart(b) ==
    /\ pc = "dec_start"
    /\ LET f == fs[Compressed[b]]
           codes == ReadCodes(f.bytes, 0, <<>>)
           start == [DecIdle EXCEPT !.backend = b, !.dictionary = DecodeTableInit]
       IN IF ~f.exists
          THEN /\ dec' = [start EXCEPT !.error = "FileNotFoundError"]
               /\ pc' = "done"
          ELSE IF codes = <<>>
          THEN /\ dec' = [start EXCEPT !.codes = codes]
               /\ pc' = "done"
          ELSE IF ~(codes[1] < Len(DecodeTableInit))
          THEN /\ dec' = [start EXCEPT !.codes = codes, !.error = "IndexError"]
               /\ pc' = "raised"
          ELSE /\ dec' = [start EXCEPT
                            !.codes = codes,
                            !.OLD_STRING = DecodeTableInit[codes[1] + 1],
                            !.decompressed_data = DecodeTableInit[codes[1] + 1],
                            !.i = 1]
               /\ pc' = "dec_loop"
    /\ UNCHANGED <<data, fs, tenc, penc, api, stored, lastCall>>

\* The KwKwK branch without the re-appended first byte.
KwKwKNoByte(OLD_STRING) == OLD_STRING

\* STRING = OLD_STRING + bytes([OLD_STRING[0]])
KwKwK(OLD_STRING) == Append(OLD_STRING, OLD_STRING[1])

\* dictionary.append with OLD_STRING[0] for STRING[0].
TableAppendStale(dictionary, OLD_STRING, STR) ==
    Append(dictionary, Append(OLD_STRING, OLD_STRING[1]))

\* dictionary.append under a capacity check the decoder does not have.
TableAppendCapped(dictionary, OLD_STRING, STR) ==
    IF Len(dictionary) < Capacity
    THEN Append(dictionary, Append(OLD_STRING, STR[1]))
    ELSE dictionary

\* dictionary.append(OLD_STRING + bytes([STRING[0]]))
TableAppend(dictionary, OLD_STRING, STR) ==
    Append(dictionary, Append(OLD_STRING, STR[1]))

\* One iteration of for i in range(1, len(codes)).
DecStep ==
    /\ pc = "dec_loop"
    /\ dec.i < Len(dec.codes)
    /\ LET NEW_CODE == dec.codes[dec.i + 1]
           known == NEW_CODE < Len(dec.dictionary)
           next == NEW_CODE = Len(dec.dictionary)
           STR == IF known THEN dec.dictionary[NEW_CODE + 1]
                     ELSE KwKwK(dec.OLD_STRING)
       IN IF known \/ next
          THEN /\ dec' = [dec EXCEPT
                            !.decompressed_data = @ \o STR,
                            !.dictionary = TableAppend(@, dec.OLD_STRING, STR),
                            !.OLD_STRING = STR,
                            !.STR = STR,
                            !.i = @ + 1,
                            !.branch = IF known THEN "known" ELSE "next"]
               /\ pc' = pc
          ELSE /\ dec' = [dec EXCEPT !.error = "ValueError", !.branch = "bad"]
               /\ pc' = "raised"
    /\ UNCHANGED <<data, fs, tenc, penc, api, stored, lastCall>>

\* After the loop: the output file.
DecFinish ==
    /\ pc = "dec_loop"
    /\ dec.i >= Len(dec.codes)
    /\ fs' = [fs EXCEPT ![Restored[dec.backend]] = File(dec.decompressed_data)]
    /\ dec' = [dec EXCEPT !.branch = "none"]
    /\ pc' = "done"
    /\ UNCHANGED <<data, tenc, penc, api, stored, lastCall>>

(***************************************************************************)
(* A run of the two programs on one input file: compress with the trie,    *)
(* compress with the Patricia trie, decompress one of the two outputs.     *)
(***************************************************************************)
Init ==
    /\ pc = "trie_start"
    /\ data \in SeqsUpTo(Byte, MaxLen)
    /\ fs = [p \in Paths |-> NoFile]
    /\ tenc = TrieIdle
    /\ penc = PatIdle
    /\ dec = DecIdle
    /\ api = ApiIdle
    /\ stored = Seeds
    /\ lastCall = NoCall

Next ==
    \/ TrieStart
    \/ TrieStep
    \/ TrieFinish
    \/ PatStart
    \/ PatStep
    \/ PatFinish
    \/ \E b \in Backends : DecStart(b)
    \/ DecStep
    \/ DecFinish

Spec == Init /\ [][Next]_vars

\* The same run executed by an interpreter that never stops on its own: a
\* statement that can run does run (one thread, no blocking call in a loop).
SpecFair == Spec /\ WF_vars(Next)

(***************************************************************************)
(* The decoder alone, on any file of at most MaxCodes codes, with or       *)
(* without an odd trailing byte.                                           *)
(***************************************************************************)
InitDec ==
    /\ pc = "dec_start"
    /\ data = <<>>
    /\ \E codes \in SeqsUpTo(0 .. MaxInCode, MaxCodes), tail \in SeqsUpTo({0}, 1) :
          fs = [p \in Paths |->
                  IF p = Compressed.trie
                  THEN File(WriteCodes(codes, 1, <<>>).bytes \o tail)
                  ELSE NoFile]
    /\ tenc = TrieIdle
    /\ penc = PatIdle
    /\ dec = DecIdle
    /\ api = ApiIdle
    /\ stored = Seeds
    /\ lastCall = NoCall

NextDec ==
    \/ DecStart("trie")
    \/ DecStep
    \/ DecFinish

SpecDec == InitDec /\ [][NextDec]_vars

(***************************************************************************)
(* The dictionary interface: any sequence of insert calls on a seeded      *)
(* PatriciaDictionary.                                                     *)
(***************************************************************************)
InitDict ==
    /\ pc = "api"
    /\ data = <<>>
    /\ fs = [p \in Paths |-> NoFile]
    /\ tenc = TrieIdle
    /\ penc = PatIdle
    /\ dec = DecIdle
    /\ api = ApiIdle
    /\ stored = Seeds
    /\ lastCall = NoCall

\* dictionary.insert(phrase, dictionary.next_code); dictionary.next_code += 1,
\* the call of the encoding loop without its capacity check, for any phrase.
ApiInsert(phrase) ==
    /\ pc = "api"
    /\ api.calls < MaxInserts
    /\ LET code == api.dict.next_code
           r == PatriciaInsert(api.dict, phrase, code)
       IN /\ api' = [api EXCEPT !.dict = [r.dict EXCEPT !.next_code = @ + 1],
                                !.calls = @ + 1]
          /\ lastCall' = [op |-> "insert", phrase |-> phrase, code |-> code,
                          result |-> r.result, called |-> TRUE]
          /\ stored' = IF phrase = <<>> \/ phrase \in DOMAIN stored
                       THEN stored
                       ELSE SetItem(stored, phrase, code)
    /\ UNCHANGED <<pc, data, fs, tenc, penc, dec>>

NextDict == \E phrase \in SeqsUpTo(Byte, MaxPhraseLen) : ApiInsert(phrase)

SpecDict == InitDict /\ [][NextDict]_vars

(***************************************************************************)
(* The two dictionaries at their capacity: the insert step of each         *)
(* encoding loop, and insert called without the loop's check.              *)
(***************************************************************************)
\* if dictionary.next_code < 65536: dictionary.insert(new_string,
\* dictionary.next_code); dictionary.next_code += 1, for any new_string.
LoopInsert(new_string) ==
    /\ pc = "api"
    /\ api.calls < MaxInserts
    /\ new_string # <<>>
    /\ LET code == api.dict.next_code
           offered == api.dict.next_code < Capacity
           r == PatriciaInsert(api.dict, new_string, code)
       IN /\ api' = [api EXCEPT
                       !.dict = IF offered THEN [r.dict EXCEPT !.next_code = @ + 1]
                                ELSE @,
                       !.calls = @ + 1]
          /\ lastCall' = [op |-> "loop_insert", phrase |-> new_string, code |-> code,
                          result |-> offered /\ r.result, called |-> offered]
          /\ stored' = IF ~offered \/ new_string \in DOMAIN stored
                       THEN stored
                       ELSE SetItem(stored, new_string, code)
    /\ UNCHANGED <<pc, data, fs, tenc, penc, dec>>

\* dictionary.insert_child(byte_val, curr_node) after search_node found no
\* child, for any node and byte.
ApiInsertChild(byte_val, curr_node) ==
    /\ pc = "api"
    /\ api.calls < MaxInserts
    /\ curr_node \in 2 .. Len(api.trie.nodes)
    /\ ~SearchNode(api.trie, byte_val, curr_node).found
    /\ LET r == InsertChild(api.trie, byte_val, curr_node)
       IN /\ api' = [api EXCEPT !.trie = r.dict, !.calls = @ + 1]
          /\ lastCall' = [op |-> "insert_child", phrase |-> <<byte_val>>,
                          code |-> api.trie.next_code, result |-> r.result,
                          called |-> TRUE]
    /\ UNCHANGED <<pc, data, fs, tenc, penc, dec, stored>>

NextCap ==
    \/ \E phrase \in SeqsUpTo(Byte, MaxPhraseLen) : ApiInsert(phrase)
    \/ \E new_string \in SeqsUpTo(Byte, MaxPhraseLen) : LoopInsert(new_string)
    \/ \E byte_val \in Byte, curr_node \in 2 .. (Capacity + 1) :
           ApiInsertChild(byte_val, curr_node)

SpecCap == InitDict /\ [][NextCap]_vars

(***************************************************************************)
(* Properties                                                              *)
(***************************************************************************)
\* The run is over: both encoders and the decoder have returned.
Finished == pc = "done"

\* The file the decoder wrote for the backend it was given.
RestoredFile == fs[Restored[dec.backend]]

\* The encoder whose output the decoder was given refused or skipped an insert
\* at capacity and went on to emit codes from the frozen dictionary.
FrozenRun ==
    /\ tenc.dictionary.num_entries = Capacity
    /\ penc.dictionary.num_entries = Capacity
    /\ Len(tenc.compressed_codes) > Capacity - NumBytes + 1

\* C1 as stated: once the run is over, for every input, the empty one
\* included, the restored file holds exactly the input bytes.
C1_RoundTripEveryInput == Finished => RestoredFile = File(data)

\* C1: for every non-empty input (a single byte, and inputs that fill the
\* dictionary to capacity included) and either backend, no stage raises and
\* the restored file holds exactly the input bytes; for the empty input both
\* encoders return before writing and the decoder writes nothing.
C1_RoundTrip ==
    /\ pc \notin {"raised", "struct_error"}
    /\ Finished =>
         IF data = <<>>
         THEN \A p \in Paths : fs[p] = NoFile
         ELSE /\ dec.error = "none"
              /\ RestoredFile = File(data)

C1_Witness ==
    /\ Finished
    /\ Len(data) = MaxLen
    /\ FrozenRun
    /\ dec.backend = "patricia"
    /\ RestoredFile = File(data)

\* C2: for every input, once both encoders have finished, the trie encoder
\* and the Patricia encoder have emitted the same code sequence, element for
\* element, and written the same file, also after the capacity was reached.
C2_BackendEquivalence ==
    pc \in {"dec_start", "dec_loop", "done"} =>
        /\ tenc.compressed_codes = penc.compressed_codes
        /\ fs[Compressed.trie] = fs[Compressed.patricia]

C2_Witness ==
    /\ pc = "dec_start"
    /\ FrozenRun
    /\ Len(penc.compressed_codes) >= Capacity - NumBytes + 3
    /\ fs[Compressed.trie].exists
    /\ fs[Compressed.trie] = fs[Compressed.patricia]


\* The non-empty prefixes of a buffer.
Prefixes(buffer) == { Slice(buffer, 0, k) : k \in 1 .. Len(buffer) }

\* The longest phrase offered to insert so far (the seeds included) that is a
\* prefix of the buffer.
LongestStored(buffer) ==
    CHOOSE p \in Prefixes(buffer) \cap DOMAIN stored :
        \A q \in Prefixes(buffer) \cap DOMAIN stored : Len(q) <= Len(p)

Buffers == SeqsUpTo(Byte, MaxPhraseLen + 1) \ {<<>>}

\* C3: after seeding and any sequence of insert calls, in any order,
\* search_longest_prefix(buffer) returns the code and the length of the longest
\* stored phrase that is a prefix of the buffer, for every non-empty buffer.
C3_LongestPrefix ==
    pc = "api" =>
        \A buffer \in Buffers :
            SearchLongestPrefix(api.dict, buffer) =
                <<stored[LongestStored(buffer)], Len(LongestStored(buffer))>>

\* "AB", "ABC", "AX" inserted in this order (A = 0, B = 1, C = 0, X = 0), and
\* the query "ABCD" answered with the code of "ABC" and length 3.
C3_Witness ==
    /\ pc = "api"
    /\ api.calls = 3
    /\ DOMAIN stored = {<<0>>, <<1>>, <<0, 1>>, <<0, 1, 0>>, <<0, 0>>}
    /\ stored[<<0, 1>>] = NumBytes
    /\ stored[<<0, 1, 0>>] = NumBytes + 1
    /\ stored[<<0, 0>>] = NumBytes + 2
    /\ SearchLongestPrefix(api.dict, <<0, 1, 0, 1>>) = <<NumBytes + 1, 3>>

\* The nodes of a dictionary that carry a code.
CodeNodes(d) == { k \in 1 .. Len(d.nodes) : d.nodes[k].code # -1 }

\* C9, one call: insert of a non-empty phrase that is not stored returns True
\* and adds one to num_entries; insert of a stored phrase returns False and
\* leaves the nodes, their codes and num_entries as they were.
C9_InsertStep ==
    (api'.calls # api.calls /\ lastCall'.phrase # <<>>) =>
        IF lastCall'.phrase \in DOMAIN stored
        THEN /\ lastCall'.result = FALSE
             /\ api'.dict.nodes = api.dict.nodes
             /\ api'.dict.num_entries = api.dict.num_entries
        ELSE /\ lastCall'.result = TRUE
             /\ api'.dict.num_entries = api.dict.num_entries + 1

\* C9: every insert call behaves as C9_InsertStep says, and num_entries always
\* equals the number of nodes that carry a code.
C9_InsertCounts ==
    /\ [][C9_InsertStep]_vars
    /\ [](Cardinality(CodeNodes(api.dict)) = api.dict.num_entries)

\* "01" was stored by giving the code to the code-less node of an earlier
\* split ("011" then "010"), and was then offered again and rejected.
C9_Witness ==
    /\ pc = "api"
    /\ lastCall.op = "insert"
    /\ lastCall.phrase = <<0, 1>>
    /\ lastCall.result = FALSE
    /\ <<0, 1>> \in DOMAIN stored
    /\ stored[<<0, 1>>] = NumBytes + 2
    /\ DOMAIN stored = {<<0>>, <<1>>, <<0, 1>>, <<0, 1, 0>>, <<0, 1, 1>>}

\* Every edge has a non-empty label and is keyed by the first byte of it.
EdgesWellFormed(d) ==
    \A k \in 1 .. Len(d.nodes) :
        \A c \in DOMAIN d.nodes[k].edges :
            /\ d.nodes[k].edges[c].label # <<>>
            /\ d.nodes[k].edges[c].label[1] = c
            /\ d.nodes[k].edges[c].child \in 2 .. Len(d.nodes)

\* The nodes that were there before the step and differ after it.
ChangedNodes(d, e) == { k \in 1 .. Len(d.nodes) : e.nodes[k] # d.nodes[k] }

\* C10: after seeding and any sequence of insert calls every edge label is
\* non-empty and keyed by its own first byte, the labels from the root to each
\* code-carrying node spell exactly the phrase inserted with that code, and
\* an insert (a split included) changes at most the one node whose edge it
\* rewrites or whose code it sets, so the rows stored before are all kept.
C10_Structure ==
    /\ [](/\ EdgesWellFormed(api.dict)
          /\ PatriciaRows(api.dict) = { <<stored[p], p>> : p \in DOMAIN stored })
    /\ [][/\ Cardinality(ChangedNodes(api.dict, api'.dict)) <= 1
          /\ PatriciaRows(api.dict) \subseteq PatriciaRows(api'.dict)]_vars

\* "011" then "01": a split that ends exactly at the split point; "100" then
\* "101": a split that leaves a code-less node with two edges.
C10_Witness ==
    /\ pc = "api"
    /\ api.calls = 4
    /\ stored = (<<0>> :> 0) @@ (<<1>> :> 1) @@ (<<0, 1, 1>> :> NumBytes)
                @@ (<<0, 1>> :> NumBytes + 1) @@ (<<1, 0, 0>> :> NumBytes + 2)
                @@ (<<1, 0, 1>> :> NumBytes + 3)
    /\ \E k \in 2 .. Len(api.dict.nodes) :
          /\ api.dict.nodes[k].code = -1
          /\ Cardinality(DOMAIN api.dict.nodes[k].edges) = 2
    /\ \E k \in 2 .. Len(api.dict.nodes) :
          /\ api.dict.nodes[k].code = NumBytes + 1
          /\ DOMAIN api.dict.nodes[k].edges = {1}


\* The length of the decode table when the code at position k (0-based) is read:
\* the seeds, plus one entry for every code after the first read before it.
TableLenAt(k) == IF k = 0 THEN NumBytes ELSE NumBytes + k - 1

\* The code at position k is neither an index of the table nor the next one.
BadCodeAt(k) == dec.codes[k + 1] > TableLenAt(k)

\* C4: whenever the code read at a position, the first included, is neither a
\* table index nor the next unused index, the decoder stops there with the
\* ValueError, having decoded no such code and written no output.
C4_MalformedStream ==
    /\ (pc = "raised" /\ BadCodeAt(dec.i)) =>
           /\ dec.error = "ValueError"
           /\ ~fs[Restored[dec.backend]].exists
    /\ pc \in {"dec_loop", "done"} =>
           \A k \in 0 .. (dec.i - 1) : ~BadCodeAt(k)

\* One loop iteration that reads a code equal to the length of the table.
C5_KwKwKStep ==
    (/\ pc = "dec_loop"
     /\ dec.i < Len(dec.codes)
     /\ dec.codes[dec.i + 1] = Len(dec.dictionary)
     /\ dec' # dec) =>
        LET code == dec.codes[dec.i + 1]
            previous == dec.OLD_STRING
            phrase == previous \o Slice(previous, 0, 1)
        IN /\ pc' = "dec_loop"
           /\ dec'.error = "none"
           /\ Len(phrase) = Len(previous) + 1
           /\ dec'.decompressed_data = dec.decompressed_data \o phrase
           /\ Len(dec'.dictionary) = Len(dec.dictionary) + 1
           /\ dec'.dictionary[code + 1] = phrase
           /\ dec'.OLD_STRING = phrase

\* C5: whenever the decoder reads, after the first code, a code equal to the
\* current length of its table, it decodes it to previous + previous[0:1]
\* without error, appends that phrase to the output, and the entry it appends
\* to the table is that phrase, stored at that code.
C5_KwKwK == [][C5_KwKwKStep]_vars

\* The KwKwK branch was taken twice in a row (codes 0, 2, 3 on a 2-byte
\* alphabet decode to 0, 00, 000).
C5_Witness ==
    /\ pc = "dec_loop"
    /\ dec.branch = "next"
    /\ dec.i = 3
    /\ dec.codes[2] = NumBytes
    /\ dec.codes[3] = NumBytes + 1
    /\ dec.OLD_STRING = <<dec.codes[1], dec.codes[1], dec.codes[1]>>
    /\ dec.dictionary[NumBytes + 2] = dec.OLD_STRING


\* The codes of a set of rows.
Codes(rows) == { r[1] : r \in rows }

\* The rows bind codes 0..n-1, each to one phrase, the codes below NumBytes
\* to the single-byte phrases, and n is within the capacity.
RowsWellFormed(rows, n) ==
    /\ Codes(rows) = 0 .. (n - 1)
    /\ Cardinality(rows) = n
    /\ \A r, t \in rows : (r[1] = t[1]) <=> (r[2] = t[2])
    /\ \A b \in Byte : <<b, <<b>>>> \in rows
    /\ n <= Capacity

\* Every row stays, and a step adds at most one row, with the code that
\* follows the largest code assigned so far and a phrase longer than one byte.
RowsGrow(rows, after) ==
    /\ rows \subseteq after
    /\ Cardinality(after \ rows) <= 1
    /\ \A r \in after \ rows :
          /\ r[1] >= NumBytes
          /\ Len(r[2]) >= 2
          /\ \A t \in rows : t[1] < r[1]

\* C6: in every state of an encode run with either backend the dictionary
\* binds codes 0..num_entries-1 one to one to phrases, the first NumBytes to
\* the single bytes, never more than Capacity of them, and every step keeps
\* the bindings and assigns at most one new code, larger than all before it.
C6_CodeMonotonicity ==
    /\ [](/\ RowsWellFormed(TrieRows(tenc.dictionary), tenc.dictionary.num_entries)
          /\ Cardinality(CodeNodes(tenc.dictionary)) = tenc.dictionary.num_entries
          /\ RowsWellFormed(PatriciaRows(penc.dictionary), penc.dictionary.num_entries)
          /\ Cardinality(CodeNodes(penc.dictionary)) = penc.dictionary.num_entries)
    /\ [][/\ RowsGrow(TrieRows(tenc.dictionary), TrieRows(tenc'.dictionary))
          /\ RowsGrow(PatriciaRows(penc.dictionary), PatriciaRows(penc'.dictionary))]_vars

\* Both encoders have filled their dictionary to the capacity, one code at a
\* time, and the Patricia encoder has just skipped an insert.
C6_Witness ==
    /\ pc = "pat_loop"
    /\ tenc.dictionary.num_entries = Capacity
    /\ penc.dictionary.num_entries = Capacity
    /\ Codes(PatriciaRows(penc.dictionary)) = 0 .. (Capacity - 1)
    /\ penc.idx < Len(data)
    /\ penc.inserted = "none"
    /\ Len(penc.compressed_codes) = Capacity - NumBytes + 1

PatriciaFull == api.dict.num_entries = Capacity /\ api.dict.next_code = Capacity
TrieFull == api.trie.num_entries = Capacity /\ api.trie.next_code = Capacity

\* insert_child on a full trie leaves it as it is and returns False.
TrieRefuses ==
    (TrieFull /\ api'.calls # api.calls /\ lastCall'.op = "insert_child") =>
        (api'.trie = api.trie /\ lastCall'.result = FALSE)

\* PatriciaDictionary.insert on a full dictionary leaves the nodes and the
\* entry count as they are and returns False.
PatriciaRefuses ==
    (PatriciaFull /\ api'.calls # api.calls /\ lastCall'.op = "insert") =>
        (/\ api'.dict.nodes = api.dict.nodes
         /\ api'.dict.num_entries = api.dict.num_entries
         /\ lastCall'.result = FALSE)

\* The insert step of the Patricia loop on a full dictionary makes no call.
PatriciaLoopSkips ==
    (PatriciaFull /\ api'.calls # api.calls /\ lastCall'.op = "loop_insert") =>
        (/\ api'.dict = api.dict
         /\ lastCall'.called = FALSE
         /\ lastCall'.result = FALSE)

\* C7 as stated: once a dictionary holds the full capacity, with the next code
\* at the capacity, every further insert call, insert_child and
\* PatriciaDictionary.insert alike, adds nothing and returns False.
C7_EveryInsertRefused == [][TrieRefuses /\ PatriciaRefuses]_vars

\* C7: once a dictionary holds the full capacity, insert_child leaves the
\* trie as it is and returns False, the insert step of the Patricia loop
\* makes no call and leaves the dictionary as it is, and matching keeps
\* working: search_node finds every seeded byte and search_longest_prefix
\* returns the longest stored prefix of every buffer.
C7_FrozenWhenFull ==
    /\ [][TrieRefuses /\ PatriciaLoopSkips]_vars
    /\ [](TrieFull => \A b \in Byte : SearchNode(api.trie, b, 1).found)
    /\ [](PatriciaFull =>
            \A buffer \in Buffers :
                SearchLongestPrefix(api.dict, buffer) =
                    <<stored[LongestStored(buffer)], Len(LongestStored(buffer))>>)

\* A full Patricia dictionary whose loop has just skipped an insert.
C7_Witness ==
    /\ PatriciaFull
    /\ lastCall.op = "loop_insert"
    /\ ~lastCall.called
    /\ lastCall.phrase \notin DOMAIN stored
    /\ api.calls = Capacity - NumBytes + 1

\* The rows of the dictionary of the encoder whose output was decoded.
EncoderRows ==
    IF dec.backend = "trie" THEN TrieRows(tenc.dictionary)
    ELSE PatriciaRows(penc.dictionary)

\* C8 as stated: for every non-empty input, after the encode and the decode of
\* its codes, the decode table is the encoder's dictionary: as many entries,
\* the same phrase at every code, and so no entry past the capacity.
C8_TableIsDictionary ==
    (Finished /\ data # <<>>) =>
        /\ Len(dec.dictionary) = Cardinality(EncoderRows)
        /\ Len(dec.dictionary) <= Capacity
        /\ \A r \in EncoderRows :
              /\ r[1] + 1 \in DOMAIN dec.dictionary
              /\ dec.dictionary[r[1] + 1] = r[2]

\* C8: for every non-empty input, after the encode and the decode of its
\* codes, the decode table holds the seeds and one entry for every code after
\* the first, and at every code of the encoder's dictionary it holds the
\* encoder's phrase; the two have as many entries exactly when the encoder
\* never skipped or refused an insert, and the table has more otherwise.
C8_TableExtendsDictionary ==
    (Finished /\ data # <<>>) =>
        /\ Len(dec.dictionary) = NumBytes + Len(dec.codes) - 1
        /\ \A r \in EncoderRows :
              /\ r[1] + 1 \in DOMAIN dec.dictionary
              /\ dec.dictionary[r[1] + 1] = r[2]
        /\ Len(dec.dictionary) >= Cardinality(EncoderRows)
        /\ (Len(dec.dictionary) = Cardinality(EncoderRows))
              <=> (Len(dec.codes) - 1 <= Capacity - NumBytes)

\* The encoder froze at the capacity and the decode table grew past it.
C8_Witness ==
    /\ Finished
    /\ FrozenRun
    /\ dec.backend = "trie"
    /\ Cardinality(EncoderRows) = Capacity
    /\ Len(dec.dictionary) > Capacity + 1
    /\ \A r \in EncoderRows : dec.dictionary[r[1] + 1] = r[2]

(***************************************************************************)
(* C11: progress and termination of the Patricia encoding loop             *)
(***************************************************************************)
\* One iteration of the loop: the code is a real one, the match is at least
\* one byte and stays inside the input, the position moves by the match.
PatIteration ==
    (pc = "pat_loop" /\ penc'.compressed_codes # penc.compressed_codes) =>
        (/\ penc'.code # -1
         /\ penc'.match_len >= 1
         /\ penc.idx + penc'.match_len <= Len(data)
         /\ penc'.idx = penc.idx + penc'.match_len
         /\ penc'.idx > penc.idx
         /\ Len(penc'.compressed_codes) = Len(penc.compressed_codes) + 1)

\* The position never passes the end and no more codes than bytes are out.
PatPosition ==
    /\ penc.idx <= Len(data)
    /\ Len(penc.compressed_codes) <= penc.idx
    /\ \A k \in 1 .. Len(penc.compressed_codes) : penc.compressed_codes[k] # -1

\* The loop has been left.
PatLoopOver == pc \notin {"trie_start", "trie_loop", "pat_start", "pat_loop"}

\* C11: in every iteration of the Patricia encoding loop
\* search_longest_prefix returns a real code (never -1) and a length of at
\* least 1 that stays inside the input, so the position strictly increases
\* and never exceeds the input length, and the loop ends with the position
\* equal to the input length after at most one code per input byte.
C11_ProgressAndTermination ==
    /\ [][PatIteration]_vars
    /\ [](PatPosition)
    /\ [](PatLoopOver => penc.idx = Len(data))
    /\ (pc = "pat_loop") ~> (PatLoopOver /\ penc.idx = Len(data))

\* The loop ended on the longest input with a match of several bytes, so
\* fewer codes than bytes were written.
C11_Witness ==
    /\ PatLoopOver
    /\ Len(data) = MaxLen
    /\ penc.idx = Len(data)
    /\ penc.match_len >= 2
    /\ Len(penc.compressed_codes) < Len(data)


(***************************************************************************)
(* C12: the Patricia encoding loop never offers a stored phrase            *)
(***************************************************************************)
\* The phrases a Patricia dictionary stores.
PatriciaPhrases(d) == {r[2] : r \in PatriciaRows(d)}

\* An iteration that did not end at the end of the input: the phrase
\* data[idx : idx + match_len + 1] was not stored before it, and, when the
\* insert was issued, it returned True and added exactly that phrase under
\* the old next_code.
PatFreshOffer ==
    (/\ pc = "pat_loop"
     /\ penc'.compressed_codes # penc.compressed_codes
     /\ penc'.idx < Len(data)) =>
        LET new_string == Slice(data, penc.idx, penc'.idx + 1)
            before == penc.dictionary
            after == penc'.dictionary
        IN /\ new_string \notin PatriciaPhrases(before)
           /\ IF before.next_code < Capacity
              THEN /\ penc'.inserted = "True"
                   /\ PatriciaRows(after) =
                        PatriciaRows(before) \cup {<<before.next_code, new_string>>}
                   /\ after.next_code = before.next_code + 1
              ELSE /\ penc'.inserted = "none"
                   /\ after = before

\* next_code counts the live entries and the codes in use are 0 .. next_code - 1.
PatNoCodeSkipped ==
    /\ penc.inserted # "False"
    /\ penc.dictionary.next_code = penc.dictionary.num_entries
    /\ penc.dictionary.num_entries = Cardinality(PatriciaRows(penc.dictionary))
    /\ {r[1] : r \in PatriciaRows(penc.dictionary)}
           = 0 .. penc.dictionary.next_code - 1

\* C12: in the Patricia encoding loop no insert is a duplicate: the phrase
\* data[idx : idx + match_len + 1] offered to insert is never already
\* stored, every insert issued below the capacity returns True, and after
\* every iteration next_code equals the number of live entries, so that no
\* code value is skipped.
C12_NoDuplicateInsert ==
    /\ [][PatFreshOffer]_vars
    /\ [](PatNoCodeSkipped)

\* An insert of a phrase of three bytes or more returned True and filled the
\* dictionary to the capacity with no code left out.
C12_Witness ==
    /\ pc = "pat_loop"
    /\ penc.inserted = "True"
    /\ penc.match_len >= 2
    /\ penc.dictionary.next_code = Capacity
    /\ penc.dictionary.num_entries = Capacity

=============================================================================
